---- MODULE Spec2Model ----
(***************************************************************************)
(* The coordinator/worker protocol exercised by the notebook               *)
(* "Introduction to TrainConfig": a scheduler (the notebook) builds a      *)
(* TrainConfig, connects a WebsocketClientWorker to the worker "alice",    *)
(* sends the config, asks alice to fit on her dataset "xor" in a loop and  *)
(* finally pulls the trained model with train_config.model_ptr.get().      *)
(*                                                                         *)
(* The notebook's cells are the coordinator's program.  The worker side    *)
(* (WebsocketServerWorker, TrainConfig.send, fit, get) lives in the syft   *)
(* library; it is modelled from the design specification.                  *)
(*                                                                         *)
(* A model object is abstracted to the number of SGD steps applied to the  *)
(* seed-1 initial parameters of Net; its loss on the xor data is read from *)
(* the outputs recorded in the notebook.                                   *)
(***************************************************************************)
EXTENDS Integers, Sequences, FiniteSets, TLC

VARIABLES
    pc,            \* the cell / statement the coordinator is at
    alice,         \* the client proxy: "none" before connect, "open" after
    model,         \* the coordinator's local model (model / traced_model)
    train_config,  \* <<the coordinator's TrainConfig object>>, <<>> before cell 9
    epoch,         \* the loop variable of the fit loop
    losses,        \* the losses printed by the loop, in order
    evalLoss,      \* the losses printed by "Evaluation before training"
    new_model,     \* <<result of train_config.model_ptr.get()>>, <<>> before
    evalAfter,     \* the losses printed by "Evaluation after training"
    req,           \* requests in flight, coordinator -> worker
    resp,          \* responses in flight, worker -> coordinator
    workerState,   \* the start_worker.py process: "notStarted", "running", "stopped"
    workerHost,    \* the host the worker process is launched on
    workerPort,    \* the --port the worker process is launched with
    datasets,      \* the worker's datasets, by key
    objects,       \* the worker's object store: objects[id] is a model object
    wTrainConfig,  \* <<the TrainConfig the worker holds>>, <<>> before a send
    nSends,        \* how many times the send cell is executed in this run
    nIter,         \* the number of iterations of the fit loop in this run
    connectLog,    \* history: every connect attempt and its outcome
    opLog,         \* history: the operations the coordinator issued, in order
    sentLog,       \* history: per send, the hyperparameters sent and the handle
    fitLog,        \* history: per fit handled, the hyperparameters trained with
    nReplies       \* history: number of responses the coordinator received

vars == <<pc, alice, model, train_config, epoch, losses, evalLoss, new_model,
          evalAfter, req, resp, workerState, workerHost, workerPort, datasets, objects,
          wTrainConfig, nSends, nIter, connectLog, opLog, sentLog,
          fitLog, nReplies>>

-----------------------------------------------------------------------------
(* Bounds of the model *)

\* the send cell is executed at most this many times in SpecAny
MaxSends == 2

-----------------------------------------------------------------------------
(* The notebook's constants *)

\* batch_size = 4
batch_size == 4
\* lr = 0.1, in thousandths
lr_milli == 100
\* epochs = 1
epochs == 1
\* shuffle = True
shuffle == TRUE
\* optimizer = "SGD"
optimizer == "SGD"
\* TrainConfig is built without max_nr_batches: the sentinel, no cap
max_nr_batches == -1
\* for epoch in range(10)
NumIterations == 10
\* WebsocketClientWorker(id="alice", port=8777, host="localhost")
ClientPort == 8777
ClientHost == "localhost"
\* alice.fit(dataset_key="xor")
DatasetKey == "xor"

\* the toy data of start_worker.main: rows <<x1, x2, target>>
XorData == << <<0, 1, 1>>, <<1, 0, 1>>, <<1, 1, 0>>, <<0, 0, 0>> >>

\* model = Net(); traced_model = th.jit.trace(model, mock_data)
InitialModel == [arch |-> "Net", steps |-> 0]

\* the environments the worker process may have been started in
Hosts == {"localhost", "otherhost"}
Ports == {8777, 8778}

\* mutant: the ninth step overshoots and the loss goes up again
RecordedLoss_overshoot ==
    <<4933, 3483, 2855, 2623, 2526, 2472, 2440, 2410, 2386, 2410, 2346>>

\* Losses recorded in the notebook, times 10^4, by SGD steps already applied:
\* 0.4933 before training and at iteration 0, ..., 0.2366 at iteration 9,
\* 0.2346 after training.
RecordedLoss ==
    <<4933, 3483, 2855, 2623, 2526, 2472, 2440, 2410, 2386, 2366, 2346>>

\* data, target of the "Evaluation" cells: the notebook's own copy of the toy data
LocalData == << <<0, 1, 1>>, <<1, 0, 1>>, <<1, 1, 0>>, <<0, 0, 0>> >>

\* loss_fn(target, m(data)): the outputs are recorded for the xor data only
Loss(m, d) == CHOOSE l \in {RecordedLoss[m.steps + 1]} : d = XorData

\* sy.TrainConfig(model=traced_model, loss_fn=loss_fn, optimizer=optimizer, ...)
Hyper ==
    [optimizer |-> optimizer, loss_fn |-> "loss_fn", batch_size |-> batch_size,
     lr |-> lr_milli, epochs |-> epochs, max_nr_batches |-> max_nr_batches,
     shuffle |-> shuffle]

\* model_ptr is 0 until the config is sent
NewTrainConfig == [hyper |-> Hyper, model_ptr |-> 0]

-----------------------------------------------------------------------------
(* The worker's training, from the design specification *)

CeilDiv(a, b) == (a + b - 1) \div b

\* training steps of one fit call: epochs passes over the dataset in batches,
\* capped by max_nr_batches unless it is the sentinel
StepsPerFit(h, ds) ==
    LET total == h.epochs * CeilDiv(Len(ds), h.batch_size)
    IN  IF h.max_nr_batches >= 0 /\ h.max_nr_batches < total
        THEN h.max_nr_batches
        ELSE total

Train(m, h, ds) == [m EXCEPT !.steps = @ + StepsPerFit(h, ds)]

\* whether a connect to host:port finds the worker
Reachable(host, port) ==
    workerState = "running" /\ workerHost = host /\ workerPort = port

-----------------------------------------------------------------------------
InitCommon ==
    /\ pc = "config"
    /\ alice = "none"
    /\ model = InitialModel
    /\ train_config = <<>>
    /\ epoch = 0
    /\ losses = <<>>
    /\ evalLoss = <<>>
    /\ new_model = <<>>
    /\ evalAfter = <<>>
    /\ req = <<>>
    /\ resp = <<>>
    /\ workerState = "notStarted"
    /\ workerHost \in Hosts
    /\ workerPort \in Ports
    /\ datasets = <<>>
    /\ objects = <<>>
    /\ wTrainConfig = <<>>
    /\ connectLog = <<>>
    /\ opLog = <<>>
    /\ sentLog = <<>>
    /\ fitLog = <<>>
    /\ nReplies = 0

\* the notebook run top to bottom
Init ==
    /\ InitCommon
    /\ nSends = 1
    /\ nIter = NumIterations

\* the notebook with the send cell executed 1..MaxSends times and the loop
\* count an input
InitAny ==
    /\ InitCommon
    /\ nSends \in 1..MaxSends
    /\ nIter \in 0..NumIterations

-----------------------------------------------------------------------------
(* The coordinator: the notebook's cells *)

\* mutant: the send cell is run again after the loop
LoopTarget_resend(e) ==
    IF e < nIter THEN "fit"
    ELSE IF Len(sentLog) < nSends + 1 THEN "send"
    ELSE "get"

\* mutant: the loop runs one iteration too many
LoopTarget_offByOne(e) ==
    IF e <= nIter THEN "fit"
    ELSE IF Len(sentLog) < nSends THEN "send"
    ELSE "get"

\* where the run goes when the loop variable reaches e
LoopTarget(e) ==
    IF e < nIter THEN "fit"
    ELSE IF Len(sentLog) < nSends THEN "send"
    ELSE "get"

\* train_config = sy.TrainConfig(model=traced_model, loss_fn=loss_fn, ...)
CreateTrainConfig ==
    /\ pc = "config"
    /\ train_config' = <<NewTrainConfig>>
    /\ pc' = "connect"
    /\ UNCHANGED <<alice, model, epoch, losses, evalLoss, new_model,
                   evalAfter, req, resp, workerState, workerHost, workerPort,
                   datasets, objects, wTrainConfig, nSends, nIter,
                   connectLog, opLog, sentLog, fitLog, nReplies>>

\* mutant: a failed connect is swallowed and the run goes on
Connect_ignoreFailure ==
    /\ pc = "connect"
    /\ LET ok == Reachable(ClientHost, ClientPort)
       IN  /\ connectLog' = Append(connectLog,
                  [host |-> ClientHost, port |-> ClientPort, reachable |-> ok,
                   outcome |-> IF ok THEN "open" ELSE "error"])
           /\ alice' = "open"
           /\ pc' = "send"
    /\ opLog' = Append(opLog, "connect")
    /\ UNCHANGED <<model, train_config, epoch, losses, evalLoss, new_model,
                   evalAfter, req, resp, workerState, workerHost, workerPort,
                   datasets, objects, wTrainConfig, nSends, nIter, sentLog,
                   fitLog, nReplies>>

\* alice = workers.WebsocketClientWorker(id="alice", port=8777, **kwargs_websocket)
\* "this step will fail if the worker is not running"
Connect ==
    /\ pc = "connect"
    /\ LET ok == Reachable(ClientHost, ClientPort)
       IN  /\ connectLog' = Append(connectLog,
                  [host |-> ClientHost, port |-> ClientPort, reachable |-> ok,
                   outcome |-> IF ok THEN "open" ELSE "error"])
           /\ alice' = IF ok THEN "open" ELSE "none"
           /\ pc' = IF ok THEN "send" ELSE "connectError"
    /\ opLog' = Append(opLog, "connect")
    /\ UNCHANGED <<model, train_config, epoch, losses, evalLoss, new_model,
                   evalAfter, req, resp, workerState, workerHost, workerPort,
                   datasets, objects, wTrainConfig, nSends, nIter, sentLog,
                   fitLog, nReplies>>

\* train_config.send(alice): the request
SendIssue ==
    /\ pc = "send"
    /\ alice = "open"
    /\ req' = Append(req, [type |-> "send", hyper |-> train_config[1].hyper,
                           model |-> model])
    /\ pc' = "sendWait"
    /\ opLog' = Append(opLog, "send")
    /\ UNCHANGED <<alice, model, train_config, epoch, losses, evalLoss,
                   new_model, evalAfter, resp, workerState, workerHost,
                   workerPort, datasets, objects, wTrainConfig, nSends,
                   nIter, connectLog, sentLog, fitLog, nReplies>>

\* train_config.send(alice): the worker's acknowledgement carries the handle
SendReturn ==
    /\ pc = "sendWait"
    /\ resp # <<>>
    /\ Head(resp).type = "ack"
    /\ train_config' = <<[train_config[1] EXCEPT !.model_ptr = Head(resp).id]>>
    /\ sentLog' = Append(sentLog, [hyper |-> train_config[1].hyper,
                                   handle |-> Head(resp).id])
    /\ resp' = Tail(resp)
    /\ nReplies' = nReplies + 1
    /\ pc' = "eval"
    /\ UNCHANGED <<alice, model, epoch, losses, evalLoss, new_model,
                   evalAfter, req, workerState, workerHost, workerPort,
                   datasets, objects, wTrainConfig, nSends, nIter,
                   connectLog, opLog, fitLog>>

\* "Evaluation before training": pred = model(data); loss = loss_fn(target, pred)
\* and the entry of the for loop
EvalBefore ==
    /\ pc = "eval"
    /\ evalLoss' = Append(evalLoss, Loss(model, LocalData))
    /\ epoch' = 0
    /\ pc' = LoopTarget(0)
    /\ UNCHANGED <<alice, model, train_config, losses, new_model, evalAfter,
                   req, resp, workerState, workerHost, workerPort, datasets,
                   objects, wTrainConfig, nSends, nIter, connectLog, opLog,
                   sentLog, fitLog, nReplies>>

\* mutant: the fit is fired without waiting for its loss
FitIssue_async ==
    /\ pc = "fit"
    /\ alice = "open"
    /\ req' = Append(req, [type |-> "fit", dataset_key |-> DatasetKey])
    /\ epoch' = epoch + 1
    /\ pc' = LoopTarget(epoch + 1)
    /\ opLog' = Append(opLog, "fit")
    /\ UNCHANGED <<alice, model, train_config, losses, evalLoss, new_model,
                   evalAfter, resp, workerState, workerHost, workerPort,
                   datasets, objects, wTrainConfig, nSends, nIter,
                   connectLog, sentLog, fitLog, nReplies>>

\* loss = alice.fit(dataset_key="xor"): the request
FitIssue ==
    /\ pc = "fit"
    /\ alice = "open"
    /\ req' = Append(req, [type |-> "fit", dataset_key |-> DatasetKey])
    /\ pc' = "fitWait"
    /\ opLog' = Append(opLog, "fit")
    /\ UNCHANGED <<alice, model, train_config, epoch, losses, evalLoss,
                   new_model, evalAfter, resp, workerState, workerHost,
                   workerPort, datasets, objects, wTrainConfig, nSends,
                   nIter, connectLog, sentLog, fitLog, nReplies>>

\* mutant: the fit result also updates the local model
FitReturn_push ==
    /\ pc = "fitWait"
    /\ resp # <<>>
    /\ Head(resp).type = "loss"
    /\ losses' = Append(losses, Head(resp).loss)
    /\ resp' = Tail(resp)
    /\ nReplies' = nReplies + 1
    /\ epoch' = epoch + 1
    /\ pc' = LoopTarget(epoch + 1)
    /\ model' = Train(model, train_config[1].hyper, LocalData)
    /\ UNCHANGED <<alice, train_config, evalLoss, new_model, evalAfter, req,
                   workerState, workerHost, workerPort, datasets, objects,
                   wTrainConfig, nSends, nIter, connectLog, opLog, sentLog,
                   fitLog>>

\* mutant: the loop halves the learning rate of the sent config
FitReturn_tunesLr ==
    /\ pc = "fitWait"
    /\ resp # <<>>
    /\ Head(resp).type = "loss"
    /\ losses' = Append(losses, Head(resp).loss)
    /\ resp' = Tail(resp)
    /\ nReplies' = nReplies + 1
    /\ epoch' = epoch + 1
    /\ pc' = LoopTarget(epoch + 1)
    /\ train_config' = <<[train_config[1] EXCEPT !.hyper.lr = @ \div 2]>>
    /\ UNCHANGED <<alice, model, evalLoss, new_model, evalAfter, req,
                   workerState, workerHost, workerPort, datasets, objects,
                   wTrainConfig, nSends, nIter, connectLog, opLog, sentLog,
                   fitLog>>

\* loss = alice.fit(...) returns; the loss is printed; next iteration
FitReturn ==
    /\ pc = "fitWait"
    /\ resp # <<>>
    /\ Head(resp).type = "loss"
    /\ losses' = Append(losses, Head(resp).loss)
    /\ resp' = Tail(resp)
    /\ nReplies' = nReplies + 1
    /\ epoch' = epoch + 1
    /\ pc' = LoopTarget(epoch + 1)
    /\ UNCHANGED <<alice, model, train_config, evalLoss, new_model,
                   evalAfter, req, workerState, workerHost, workerPort,
                   datasets, objects, wTrainConfig, nSends, nIter,
                   connectLog, opLog, sentLog, fitLog>>

\* new_model = train_config.model_ptr.get(): the request
GetIssue ==
    /\ pc = "get"
    /\ alice = "open"
    /\ req' = Append(req, [type |-> "get", id |-> train_config[1].model_ptr])
    /\ pc' = "getWait"
    /\ opLog' = Append(opLog, "get")
    /\ UNCHANGED <<alice, model, train_config, epoch, losses, evalLoss,
                   new_model, evalAfter, resp, workerState, workerHost,
                   workerPort, datasets, objects, wTrainConfig, nSends,
                   nIter, connectLog, sentLog, fitLog, nReplies>>

\* mutant: the retrieval hands back the local model
GetReturn_local ==
    /\ pc = "getWait"
    /\ resp # <<>>
    /\ Head(resp).type = "model"
    /\ new_model' = <<model>>
    /\ resp' = Tail(resp)
    /\ nReplies' = nReplies + 1
    /\ pc' = "evalAfter"
    /\ UNCHANGED <<alice, model, train_config, epoch, losses, evalLoss,
                   evalAfter, req, workerState, workerHost, workerPort,
                   datasets, objects, wTrainConfig, nSends, nIter,
                   connectLog, opLog, sentLog, fitLog>>

\* new_model = train_config.model_ptr.get() returns
GetReturn ==
    /\ pc = "getWait"
    /\ resp # <<>>
    /\ Head(resp).type = "model"
    /\ new_model' = <<Head(resp).model>>
    /\ resp' = Tail(resp)
    /\ nReplies' = nReplies + 1
    /\ pc' = "evalAfter"
    /\ UNCHANGED <<alice, model, train_config, epoch, losses, evalLoss,
                   evalAfter, req, workerState, workerHost, workerPort,
                   datasets, objects, wTrainConfig, nSends, nIter,
                   connectLog, opLog, sentLog, fitLog>>

\* "Evaluation after training": pred = new_model(data); loss = loss_fn(...)
EvalAfter ==
    /\ pc = "evalAfter"
    /\ evalAfter' = Append(evalAfter, Loss(new_model[1], LocalData))
    /\ pc' = "done"
    /\ UNCHANGED <<alice, model, train_config, epoch, losses, evalLoss,
                   new_model, req, resp, workerState, workerHost, workerPort,
                   datasets, objects, wTrainConfig, nSends, nIter,
                   connectLog, opLog, sentLog, fitLog, nReplies>>

-----------------------------------------------------------------------------
(* The worker *)

\* python start_worker.py --port <port> --id alice, run in a terminal:
\* main creates the worker, adds the xor dataset under key "xor" and starts it
StartWorker ==
    /\ workerState = "notStarted"
    /\ datasets' = [k \in {"xor"} |-> XorData]
    /\ workerState' = "running"
    /\ UNCHANGED <<pc, alice, model, train_config, epoch, losses, evalLoss,
                   new_model, evalAfter, req, resp, workerHost, workerPort,
                   objects, wTrainConfig, nSends, nIter, connectLog, opLog,
                   sentLog, fitLog, nReplies>>

(* Its request handlers, from the design specification *)

\* mutant: a re-sent config takes the place of the first object
WorkerSend_overwrite ==
    /\ workerState = "running"
    /\ req # <<>>
    /\ Head(req).type = "send"
    /\ objects' = IF objects = <<>> THEN <<Head(req).model>>
                  ELSE [objects EXCEPT ![1] = Head(req).model]
    /\ wTrainConfig' = <<[hyper |-> Head(req).hyper,
                         model_id |-> 1]>>
    /\ resp' = Append(resp, [type |-> "ack", id |-> 1])
    /\ req' = Tail(req)
    /\ UNCHANGED <<pc, alice, model, train_config, epoch, losses, evalLoss,
                   new_model, evalAfter, workerState, workerHost, workerPort,
                   datasets, nSends, nIter, connectLog, opLog, sentLog,
                   fitLog, nReplies>>

\* a TrainConfig arrives: the model is stored under a fresh id, the config is
\* kept, and the handle is acknowledged
WorkerSend ==
    /\ workerState = "running"
    /\ req # <<>>
    /\ Head(req).type = "send"
    /\ objects' = Append(objects, Head(req).model)
    /\ wTrainConfig' = <<[hyper |-> Head(req).hyper,
                         model_id |-> Len(objects) + 1]>>
    /\ resp' = Append(resp, [type |-> "ack", id |-> Len(objects) + 1])
    /\ req' = Tail(req)
    /\ UNCHANGED <<pc, alice, model, train_config, epoch, losses, evalLoss,
                   new_model, evalAfter, workerState, workerHost, workerPort,
                   datasets, nSends, nIter, connectLog, opLog, sentLog,
                   fitLog, nReplies>>

\* mutant: the fit result carries the batch it was computed on
WorkerFit_leak ==
    /\ workerState = "running"
    /\ req # <<>>
    /\ Head(req).type = "fit"
    /\ wTrainConfig # <<>>
    /\ Head(req).dataset_key \in DOMAIN datasets
    /\ LET id == wTrainConfig[1].model_id
           ds == datasets[Head(req).dataset_key]
       IN  /\ resp' = Append(resp, [type |-> "loss", loss |-> Loss(objects[id], ds),
                                data |-> ds])
           /\ objects' = [objects EXCEPT
                             ![id] = Train(@, wTrainConfig[1].hyper, ds)]
    /\ fitLog' = Append(fitLog, wTrainConfig[1].hyper)
    /\ req' = Tail(req)
    /\ UNCHANGED <<pc, alice, model, train_config, epoch, losses, evalLoss,
                   new_model, evalAfter, workerState, workerHost, workerPort,
                   datasets, wTrainConfig, nSends, nIter, connectLog, opLog,
                   sentLog, nReplies>>

\* fit(dataset_key): one training pass of the held config's model on the named
\* dataset, in place; the loss of the pass is returned
WorkerFit ==
    /\ workerState = "running"
    /\ req # <<>>
    /\ Head(req).type = "fit"
    /\ wTrainConfig # <<>>
    /\ Head(req).dataset_key \in DOMAIN datasets
    /\ LET id == wTrainConfig[1].model_id
           ds == datasets[Head(req).dataset_key]
       IN  /\ resp' = Append(resp, [type |-> "loss", loss |-> Loss(objects[id], ds)])
           /\ objects' = [objects EXCEPT
                             ![id] = Train(@, wTrainConfig[1].hyper, ds)]
    /\ fitLog' = Append(fitLog, wTrainConfig[1].hyper)
    /\ req' = Tail(req)
    /\ UNCHANGED <<pc, alice, model, train_config, epoch, losses, evalLoss,
                   new_model, evalAfter, workerState, workerHost, workerPort,
                   datasets, wTrainConfig, nSends, nIter, connectLog, opLog,
                   sentLog, nReplies>>

\* get(id): the current state of the object is returned
WorkerGet ==
    /\ workerState = "running"
    /\ req # <<>>
    /\ Head(req).type = "get"
    /\ Head(req).id \in DOMAIN objects
    /\ resp' = Append(resp, [type |-> "model", model |-> objects[Head(req).id]])
    /\ req' = Tail(req)
    /\ UNCHANGED <<pc, alice, model, train_config, epoch, losses, evalLoss,
                   new_model, evalAfter, workerState, workerHost, workerPort,
                   datasets, objects, wTrainConfig, nSends, nIter,
                   connectLog, opLog, sentLog, fitLog, nReplies>>

\* the worker process is managed outside the notebook and may end at any time
WorkerStop ==
    /\ workerState = "running"
    /\ workerState' = "stopped"
    /\ UNCHANGED <<pc, alice, model, train_config, epoch, losses, evalLoss,
                   new_model, evalAfter, req, resp, workerHost, workerPort,
                   datasets, objects, wTrainConfig, nSends, nIter,
                   connectLog, opLog, sentLog, fitLog, nReplies>>

-----------------------------------------------------------------------------
Progress ==
    \/ CreateTrainConfig
    \/ Connect
    \/ SendIssue
    \/ SendReturn
    \/ EvalBefore
    \/ FitIssue
    \/ FitReturn
    \/ GetIssue
    \/ GetReturn
    \/ EvalAfter
    \/ WorkerSend
    \/ WorkerFit
    \/ WorkerGet

Next ==
    \/ Progress
    \/ StartWorker
    \/ WorkerStop

\* the notebook run top to bottom
Spec == Init /\ [][Next]_vars

\* the notebook with the number of sends and of loop iterations as inputs
SpecAny == InitAny /\ [][Next]_vars

\* the notebook run with every enabled step eventually taken
SpecFair == Init /\ [][Next]_vars /\ WF_vars(Progress)

-----------------------------------------------------------------------------
(* Helpers of the properties *)

Count(seq, x) == Cardinality({i \in DOMAIN seq : seq[i] = x})

\* requests issued to the worker so far
Issued == Len(opLog) - Count(opLog, "connect")

\* requests issued and not yet answered to the coordinator
Outstanding == Issued - nReplies

\* training steps of one fit with the notebook's config on the xor dataset
FitSteps == StepsPerFit(Hyper, XorData)

\* fits the worker has applied to the object of the latest send
RoundFits == Len(fitLog) - nIter * (Len(objects) - 1)

Waiting == pc \in {"sendWait", "fitWait", "getWait"}

-----------------------------------------------------------------------------
(* C1: a connect to an endpoint where no worker listens fails at the connect
   step: it is recorded as an error, the run ends in the connect error, there
   is exactly one attempt (no retry, no fallback), and nothing is sent,
   fitted or retrieved afterwards. *)
C1_ConnectFailureSurfaced ==
    /\ Len(connectLog) <= 1
    /\ \A i \in DOMAIN connectLog :
          /\ ~connectLog[i].reachable => connectLog[i].outcome = "error"
          /\ connectLog[i].outcome = "error" =>
                /\ pc = "connectError"
                /\ alice = "none"
                /\ opLog = <<"connect">>
                /\ req = <<>> /\ resp = <<>>
                /\ objects = <<>> /\ losses = <<>> /\ new_model = <<>>

\* the worker runs, but not where the client connects, and the connect failed
C1_Witness ==
    /\ pc = "connectError"
    /\ workerState = "running"
    /\ <<workerHost, workerPort>> # <<ClientHost, ClientPort>>

(* C2: the model retrieved through train_config.model_ptr is the worker's
   current state of the sent model with all fits of the loop applied
   cumulatively: each fit starts from the state the previous one left (so the
   i-th loss is the loss after i-1 fits), the retrieved model carries nIter
   fits, and for nIter >= 1 it evaluates differently from the local
   pre-training model. *)
C2_GetReturnsCumulativeModel ==
    /\ wTrainConfig # <<>> =>
          objects[wTrainConfig[1].model_id] =
              [arch |-> "Net", steps |-> RoundFits * FitSteps]
    /\ \A i \in DOMAIN losses :
          losses[i] =
              Loss([InitialModel EXCEPT !.steps = ((i - 1) % nIter) * FitSteps],
                   XorData)
    /\ new_model # <<>> =>
          /\ new_model[1] = objects[train_config[1].model_ptr]
          /\ new_model[1] = [arch |-> "Net", steps |-> nIter * FitSteps]
          /\ nIter >= 1 =>
                /\ new_model[1] # model
                /\ Loss(new_model[1], LocalData) # Loss(model, LocalData)

\* a retrieval after three fits
C2_Witness ==
    /\ pc = "done"
    /\ nIter = 3
    /\ Len(losses) = 3
    /\ new_model = <<[arch |-> "Net", steps |-> 3]>>

(* C3: every send yields a handle of its own, every handle stays valid, and a
   later send (and the fits that follow it) leaves the object of an earlier
   handle exactly as the fits on that handle left it. *)
C3_ResendIndependentHandles ==
    /\ \A i, j \in DOMAIN sentLog :
          i # j => sentLog[i].handle # sentLog[j].handle
    /\ \A i \in DOMAIN sentLog : sentLog[i].handle \in DOMAIN objects
    /\ \A id \in DOMAIN objects :
          id < Len(objects) =>
              objects[id] = [arch |-> "Net", steps |-> nIter * FitSteps]

\* two sends, the first object trained twice, the second one trained once
C3_Witness ==
    /\ Len(sentLog) = 2
    /\ nIter = 2
    /\ Len(objects) = 2
    /\ objects[sentLog[1].handle].steps = 2
    /\ objects[sentLog[2].handle].steps = 1

(* C4: retrieval is pull-only: the coordinator's local model stays the
   pre-send model through every send and fit (it still evaluates to the
   pre-training loss after the send), a fit response carries only a
   loss, and the coordinator holds a retrieved model only after it issued the
   retrieval request and got its answer. *)
C4_PullOnly ==
    /\ model = InitialModel
    /\ \A i \in DOMAIN resp :
          resp[i].type = "loss" => DOMAIN resp[i] = {"type", "loss"}
    /\ new_model # <<>> =>
          /\ Count(opLog, "get") >= 1
          /\ pc \in {"evalAfter", "done"}
    /\ Count(opLog, "get") = 0 => new_model = <<>>
    /\ \A i \in DOMAIN evalLoss : evalLoss[i] = Loss(InitialModel, LocalData)

\* ten fits done on the worker, nothing pulled yet, local model untouched
C4_Witness ==
    /\ Len(losses) = NumIterations
    /\ objects = <<[arch |-> "Net", steps |-> NumIterations]>>
    /\ model = InitialModel
    /\ new_model = <<>>

(* C5: the datasets stay on the worker: every response is an acknowledgement
   with a handle, a loss, or a model object, none with dataset contents, and
   every fit request names the dataset by its string key only. *)
C5_DatasetsStayOnWorker ==
    /\ \A i \in DOMAIN resp :
          \/ /\ resp[i].type = "ack"
             /\ DOMAIN resp[i] = {"type", "id"}
             /\ resp[i].id \in DOMAIN objects
          \/ /\ resp[i].type = "loss"
             /\ DOMAIN resp[i] = {"type", "loss"}
             /\ resp[i].loss \in Nat
          \/ /\ resp[i].type = "model"
             /\ DOMAIN resp[i] = {"type", "model"}
             /\ DOMAIN resp[i].model = {"arch", "steps"}
    /\ \A i \in DOMAIN req :
          req[i].type = "fit" =>
              /\ DOMAIN req[i] = {"type", "dataset_key"}
              /\ req[i].dataset_key = "xor"

\* a fit result on its way back while the worker holds the dataset
C5_Witness ==
    /\ resp # <<>>
    /\ Head(resp).type = "loss"
    /\ DOMAIN datasets = {"xor"}
    /\ datasets["xor"] = XorData

(* C6: the coordinator blocks on every request: at most one request is
   outstanding, it waits exactly while one is, the (i+1)-th fit is issued
   only after the i-th loss has been received, and while a request is
   unanswered no further request is issued. *)
C6_OneOutstandingRequest ==
    /\ Outstanding \in {0, 1}
    /\ Len(req) + Len(resp) <= Outstanding
    /\ Waiting <=> Outstanding = 1
    /\ Count(opLog, "fit") <= Len(losses) + 1
    /\ Count(opLog, "fit") = Len(losses) + 1 => pc = "fitWait"

\* the worker ended with a fit unanswered: the coordinator waits for good
C6_Witness ==
    /\ workerState = "stopped"
    /\ pc = "fitWait"
    /\ Len(req) = 1
    /\ Len(losses) = 3
    /\ Count(opLog, "fit") = 4

(* C7: the operations are issued in one fixed order over one connection:
   connect once and first, send once and second, then only fits, then one
   get, which is last and follows the last fit's response; nothing is issued
   without the open connection and there is no second connect. *)
C7_FixedOrder ==
    /\ Count(opLog, "connect") <= 1
    /\ Count(opLog, "send") <= 1
    /\ Count(opLog, "get") <= 1
    /\ Len(connectLog) = Count(opLog, "connect")
    /\ \A i \in DOMAIN opLog :
          /\ i = 1 => opLog[i] = "connect"
          /\ i = 2 => opLog[i] = "send"
          /\ i > 2 => opLog[i] \in {"fit", "get"}
          /\ opLog[i] = "get" =>
                /\ i = Len(opLog)
                /\ Len(losses) = Count(opLog, "fit")
    /\ Len(opLog) >= 2 => alice = "open"

\* the whole run: connect, send, the fits, get
C7_Witness ==
    /\ pc = "done"
    /\ Len(opLog) = NumIterations + 3
    /\ opLog[Len(opLog)] = "get"

(* C8: the config is immutable once sent: the hyperparameters, loss function
   and optimizer kind held by the coordinator and by the worker stay the
   values that were sent, and every fit trains with exactly those values. *)
C8_ConfigImmutable ==
    /\ \A i \in DOMAIN sentLog :
          /\ sentLog[i].hyper = Hyper
          /\ train_config[1].hyper = sentLog[i].hyper
    /\ wTrainConfig # <<>> => wTrainConfig[1].hyper = Hyper
    /\ \A i \in DOMAIN fitLog : fitLog[i] = Hyper
    /\ Len(opLog) >= 2 => train_config[1].hyper = Hyper

\* after the retrieval, ten fits having trained with the config
C8_Witness ==
    /\ pc = "done"
    /\ Len(fitLog) = NumIterations
    /\ wTrainConfig # <<>>

(* C9: the losses returned by the sequential fits do not increase; with
   batch_size equal to the size of the xor dataset every fit is one
   full-batch step, so the sequence is the one the notebook recorded, in
   which every loss is lower than the one before. *)
C9_LossesDecrease ==
    \A i \in DOMAIN losses :
        i > 1 => losses[i] < losses[i - 1]

\* all ten losses collected
C9_Witness ==
    /\ Len(losses) = NumIterations
    /\ losses[1] = 4933
    /\ losses[NumIterations] = 2366

\* the bounded part of C10
C10_Bounded ==
    /\ Count(opLog, "fit") <= NumIterations
    /\ Len(losses) <= Count(opLog, "fit")
    /\ epoch = Len(losses)
    /\ \A i \in DOMAIN losses : losses[i] = RecordedLoss[i]
    /\ \A i \in DOMAIN req :
          req[i].type = "fit" => req[i].dataset_key = "xor"
    /\ pc \in {"get", "getWait", "evalAfter", "done"} =>
          /\ Count(opLog, "fit") = NumIterations
          /\ Len(losses) = NumIterations
    /\ pc \in {"evalAfter", "done"} => Count(opLog, "get") = 1

(* C10: the loop is bounded: never more than 10 fit requests, all for "xor",
   one loss per answered request in request order, the retrieval only after
   exactly 10 losses; and unless the worker ends, the run terminates (after
   the retrieval, or in the connect error). *)
C10_BoundedLoopTerminates ==
    /\ []C10_Bounded
    /\ <>(workerState = "stopped" \/ pc \in {"done", "connectError"})

\* the run ended after ten losses and the retrieval
C10_Witness ==
    /\ pc = "done"
    /\ Len(losses) = NumIterations
    /\ Count(opLog, "fit") = NumIterations
    /\ workerState = "running"

====
